---- MODULE Spec2Model ----
(***************************************************************************)
(* ddh: duplicate finder.  main.rs walks the root directories in parallel, *)
(* sends one Fileinfo per regular file over a channel, buckets the records *)
(* by length, resolves every bucket with differentiate_and_consolidate and *)
(* partitions the result into shared and unique records.                   *)
(***************************************************************************)
EXTENDS Integers, Sequences, FiniteSets, TLC

VARIABLES
    roots,            \* search_dirs: the root paths given on the command line
    content,          \* the file system: path of a regular file -> its bytes
    unlistable,       \* directories whose read_dir fails
    vanished,         \* paths removed from the file system during the run
    pc,               \* position of main
    tasks,            \* live traverse_and_spawn calls
    senders,          \* live handles of the channel's Sender
    queue,            \* the channel: records sent and not yet received
    sent,             \* every record sent so far, in order (history)
    diag,             \* "Skipping <path>" lines printed, per path
    panicked,         \* a traversal task panicked
    files_of_lengths, \* HashMap<u64, Vec<Fileinfo>>
    resolved,         \* keys of the buckets already resolved
    complete_files,   \* Vec<Fileinfo> collected from the resolvers
    partial_reads,    \* generate_hash(Partial) calls, per path
    full_reads,       \* generate_hash(Full) calls, per path
    shared_files,
    unique_files

vars == <<roots, content, unlistable, vanished, pc, tasks, senders, queue, sent,
          diag, panicked, files_of_lengths, resolved, complete_files,
          partial_reads, full_reads, shared_files, unique_files>>

(***************************************************************************)
(* Bounds of the model.                                                    *)
(***************************************************************************)
\* longest sequence of records left in the channel by the walker
MaxFiles == 3
\* longest list of root paths
MaxRoots == 2
\* entries that may vanish during a walk
MaxVanish == 1

\* the prefix read by a partial hash, and the full-hash threshold (4KB)
PartialBytes == 4096

(***************************************************************************)
(* The file system.  The bytes of a file are abstracted to its length, the *)
(* identity of its first min(len, 4096) bytes (prefix) and the identity of *)
(* the bytes after them (suffix; 0 when there are none).                   *)
(***************************************************************************)
Bytes(n, p, s) == [len |-> n, prefix |-> p, suffix |-> s]

Contents ==
    {Bytes(0, 0, 0)}
    \cup {Bytes(PartialBytes, p, 0) : p \in 0..1}
    \cup {Bytes(PartialBytes + 1, p, s) : p \in 0..1, s \in 0..1}

\* the contents the files of the walked tree are drawn from: an empty file
\* and one longer than the partial hash reads
WalkContents == {Bytes(0, 0, 0), Bytes(PartialBytes + 1, 0, 0)}

\* the static tree walked by Spec
TreeDirs == {"/r", "/r/d"}
TreeFiles == {"/r/a", "/r/d/b"}
TreeOthers == {"/r/k"}
RootCandidates == {"/r", "/r/d", "/x"}

Listing(p) ==
    CASE p = "/r" -> {"/r/a", "/r/d", "/r/k"}
      [] p = "/r/d" -> {"/r/d/b"}
      [] OTHER -> {}

Parent(p) ==
    CASE p \in {"/r/a", "/r/d", "/r/k"} -> "/r"
      [] p = "/r/d/b" -> "/r/d"
      [] OTHER -> ""

\* Path::exists
exists(p) == p \in (TreeDirs \cup TreeFiles \cup TreeOthers) \ vanished

\* symlink_metadata().file_type()
file_type(p) ==
    CASE p \in TreeDirs -> "dir"
      [] p \in TreeFiles -> "file"
      [] OTHER -> "other"

\* fs::read_dir: the entries of a listable directory that still exist
read_dir(p) == {c \in Listing(p) : c \notin vanished}

(***************************************************************************)
(* Fileinfo                                                                *)
(***************************************************************************)
Fileinfo_new(length, path) ==
    [file_hash |-> 0, file_len |-> length, file_paths |-> <<path>>,
     second_hash |-> FALSE]

get_length(f) == f.file_len

Fileinfo_eq(a, b) == (a.file_hash = b.file_hash) /\ (a.file_len = b.file_len)

\* an injective hash of a byte string given as (length, prefix, suffix)
HashOf(n, p, s) == ((n * 2 + p) * 2 + s) + 1

Min(a, b) == IF a < b THEN a ELSE b

\* generate_hash reads the file at the record's first path
generate_hash(f, mode, fs) ==
    LET c == fs[f.file_paths[1]]
    IN  IF mode = "Partial"
        THEN HashOf(Min(c.len, PartialBytes), c.prefix, 0)
        ELSE HashOf(c.len, c.prefix, c.suffix)

set_partial_hash(f, h) == [f EXCEPT !.file_hash = h]
get_partial_hash(f) == f.file_hash

\* set_full_hash(Some(1)): the record is marked as needing a full hash
mark_full_hash(f) == [f EXCEPT !.second_hash = TRUE]
\* get_full_hash().is_some()
has_full_hash(f) == f.second_hash
\* set_full_hash(hash): the full hash replaces the record's hash
set_full_hash(f, h) == [f EXCEPT !.file_hash = h, !.second_hash = TRUE]

(***************************************************************************)
(* differentiate_and_consolidate                                           *)
(***************************************************************************)
\* mutant: the zero-length test is left out
early_return_nonempty_only(file_length, files) == Len(files) = 0

\* if file_length==0 || files.len()==0 { return files }
early_return(file_length, files) == file_length = 0 \/ Len(files) = 0

\* "Hash stage one": every record gets its partial hash
hash_stage_one(files, fs) ==
    [i \in DOMAIN files |->
        set_partial_hash(files[i], generate_hash(files[i], "Partial", fs))]

\* the orders of the records with indices in S that are descending in the
\* partial hash: a record with the greatest hash, then the others in order
RECURSIVE DescendingOrders(_, _)
DescendingOrders(files, S) ==
    IF S = {} THEN {<<>>}
    ELSE LET first == {i \in S : \A j \in S :
                          get_partial_hash(files[i]) >= get_partial_hash(files[j])}
         IN  UNION {{<<files[i]>> \o rest : rest \in DescendingOrders(files, S \ {i})} :
                    i \in first}

\* par_sort_unstable_by(|a, b| b.partial.cmp(a.partial)): every order of the
\* records that is descending in the partial hash (ties in any order)
par_sort_unstable_by(files) == DescendingOrders(files, DOMAIN files)

\* if file_length>4096 { ... }
hash_again(file_length) == file_length > PartialBytes

\* mutant: only the later record of an equal pair is marked
mark_pair_later_only(files, i) == [files EXCEPT ![i] = mark_full_hash(@)]

\* the closure of the first dedup_by on the pair (a, b) = (files[i], files[i-1])
mark_pair(files, i) ==
    [files EXCEPT ![i] = mark_full_hash(@), ![i - 1] = mark_full_hash(@)]

\* files.dedup_by(|a, b| if a==b { mark both; false } else { false })
RECURSIVE mark_pass(_, _)
mark_pass(files, i) ==
    IF i > Len(files) THEN files
    ELSE IF Fileinfo_eq(files[i], files[i - 1])
         THEN mark_pass(mark_pair(files, i), i + 1)
         ELSE mark_pass(files, i + 1)

\* mutant: the marked records are not hashed again
full_hash_pass_skipped(files, fs) == files

\* files.par_iter_mut().filter(|x| x.get_full_hash().is_some()).for_each(...)
full_hash_pass(files, fs) ==
    [i \in DOMAIN files |->
        IF has_full_hash(files[i])
        THEN set_full_hash(files[i], generate_hash(files[i], "Full", fs))
        ELSE files[i]]

\* mutant: the dropped record's paths are not taken over
merge_paths_dropped(b, a) == b

\* b.file_paths.extend(a.file_paths.drain(0..))
merge_paths(b, a) == [b EXCEPT !.file_paths = @ \o a.file_paths]

\* files.dedup_by(|a, b| if a==b { merge a into b; true } else { false }):
\* a is files[i], b is the last record kept so far
RECURSIVE merge_pass(_, _, _)
merge_pass(files, i, out) ==
    IF i > Len(files) THEN out
    ELSE LET a == files[i]
             b == out[Len(out)]
         IN  IF Fileinfo_eq(a, b)
             THEN merge_pass(files, i + 1, [out EXCEPT ![Len(out)] = merge_paths(b, a)])
             ELSE merge_pass(files, i + 1, Append(out, a))

\* the orders the sort may leave the bucket in (the bucket itself when the
\* function returns before sorting)
sort_choices(file_length, files, fs) ==
    IF early_return(file_length, files) \/ Len(files) = 1
    THEN {files}
    ELSE par_sort_unstable_by(hash_stage_one(files, fs))

\* the records as they are when the last dedup_by starts
before_merge(file_length, sorted, fs) ==
    IF hash_again(file_length)
    THEN full_hash_pass(mark_pass(sorted, 2), fs)
    ELSE sorted

\* differentiate_and_consolidate, given the order `sorted` the sort produced
differentiate_and_consolidate(file_length, files, sorted, fs) ==
    IF early_return(file_length, files) \/ Len(files) = 1
    THEN files
    ELSE LET hashed == before_merge(file_length, sorted, fs)
         IN  merge_pass(hashed, 2, <<hashed[1]>>)

\* the paths whose file generate_hash(Partial) reads, with multiplicity
RecordsAt(files, p) == Cardinality({i \in DOMAIN files : files[i].file_paths[1] = p})

partial_hashed(file_length, files, p) ==
    IF early_return(file_length, files) \/ Len(files) = 1
    THEN 0
    ELSE RecordsAt(files, p)

\* the paths whose file generate_hash(Full) reads, with multiplicity
full_hashed(file_length, files, sorted, p) ==
    IF early_return(file_length, files) \/ Len(files) = 1 \/ ~hash_again(file_length)
    THEN 0
    ELSE LET marked == mark_pass(sorted, 2)
         IN  Cardinality({i \in DOMAIN marked :
                 has_full_hash(marked[i]) /\ marked[i].file_paths[1] = p})

\* mutant: the partition asks for more than two paths
is_shared_over_two(x) == Len(x.file_paths) > 2

\* the partition closure of main: |&x| x.file_paths.len()>1
is_shared(x) == Len(x.file_paths) > 1

(***************************************************************************)
(* Inputs                                                                  *)
(***************************************************************************)
RootLists == UNION {[1..n -> RootCandidates] : n \in 1..MaxRoots}

\* names of the files the walker found, in SpecResolve
PathNames == <<"/in/f1", "/in/f2", "/in/f3", "/in/f4", "/in/f5">>

ZeroReads(paths) == [p \in paths |-> 0]

\* the state before main spawns the traversal of the roots, over a static tree
Init ==
    /\ roots \in RootLists
    /\ content \in [TreeFiles -> WalkContents]
    /\ unlistable \in SUBSET {"/r/d"}
    /\ vanished = {}
    /\ pc = "spawn"
    /\ tasks = {}
    /\ senders = 1
    /\ queue = <<>>
    /\ sent = <<>>
    /\ diag = [d \in TreeDirs |-> 0]
    /\ panicked = FALSE
    /\ files_of_lengths = <<>>
    /\ resolved = {}
    /\ complete_files = <<>>
    /\ partial_reads = ZeroReads(TreeFiles)
    /\ full_reads = ZeroReads(TreeFiles)
    /\ shared_files = <<>>
    /\ unique_files = <<>>

\* the orders in which m records of n files can arrive, every file at least
\* once (a file below two roots arrives twice), the files numbered in the
\* order of their first arrival
Arrivals(n, m) ==
    {o \in [1..m -> 1..n] :
        /\ \A f \in 1..n : \E i \in 1..m : o[i] = f
        /\ \A i \in 1..m : \A f \in 1..(o[i] - 1) : \E j \in 1..(i - 1) : o[j] = f}

\* the state when the traversal has ended and main starts to receive: the
\* walker found n files and left m records in the channel in some order
InitDrain ==
    /\ roots = <<"/in">>
    /\ \E n \in 0..MaxFiles : \E m \in n..MaxFiles : \E o \in Arrivals(n, m) :
          /\ content \in [{PathNames[i] : i \in 1..n} -> Contents]
          /\ queue = [i \in 1..m |->
                        Fileinfo_new(content[PathNames[o[i]]].len, PathNames[o[i]])]
    /\ unlistable = {}
    /\ vanished = {}
    /\ pc = "drain"
    /\ tasks = {}
    /\ senders = 0
    /\ sent = queue
    /\ diag = [d \in TreeDirs |-> 0]
    /\ panicked = FALSE
    /\ files_of_lengths = <<>>
    /\ resolved = {}
    /\ complete_files = <<>>
    /\ partial_reads = ZeroReads(DOMAIN content)
    /\ full_reads = ZeroReads(DOMAIN content)
    /\ shared_files = <<>>
    /\ unique_files = <<>>

(***************************************************************************)
(* The walker                                                              *)
(***************************************************************************)
Task(r, p, st) == [root |-> r, path |-> p, stage |-> st]

walkerVars == <<tasks, senders, queue, sent, diag, panicked>>
resolverVars == <<files_of_lengths, resolved, complete_files, partial_reads,
                  full_reads, shared_files, unique_files>>
inputVars == <<roots, content, unlistable>>

\* search_dirs.par_iter().for_each_with(sender, ...): one call of
\* traverse_and_spawn per root, each with a clone of the sender
MainSpawn ==
    /\ pc = "spawn"
    /\ pc' = "walk"
    /\ tasks' = {Task(i, roots[i], "call") : i \in DOMAIN roots}
    /\ senders' = senders + Len(roots)
    /\ UNCHANGED <<inputVars, vanished, queue, sent, diag, panicked, resolverVars>>

\* traverse_and_spawn up to its return or to the for_each_with it waits in: a
\* path that does not exist is left, a directory is listed and one call is
\* spawned per entry, a regular file is sent, anything else is skipped
TraverseCall(t) ==
    /\ pc = "walk"
    /\ t \in tasks
    /\ t.stage = "call"
    /\ CASE ~exists(t.path) ->
              /\ tasks' = tasks \ {t}
              /\ senders' = senders - 1
              /\ UNCHANGED <<queue, sent, diag>>
         [] exists(t.path) /\ file_type(t.path) = "dir" ->
              LET paths == IF t.path \in unlistable THEN {} ELSE read_dir(t.path)
              IN  /\ tasks' = (tasks \ {t})
                        \cup {Task(t.root, t.path, "join")}
                        \cup {Task(t.root, c, "call") : c \in paths}
                  /\ senders' = senders + Cardinality(paths)
                  /\ diag' = IF t.path \in unlistable
                             THEN [diag EXCEPT ![t.path] = @ + 1]
                             ELSE diag
                  /\ UNCHANGED <<queue, sent>>
         [] exists(t.path) /\ file_type(t.path) = "file" ->
              LET entry == Fileinfo_new(content[t.path].len, t.path)
              IN  /\ queue' = Append(queue, entry)
                  /\ sent' = Append(sent, entry)
                  /\ tasks' = tasks \ {t}
                  /\ senders' = senders - 1
                  /\ UNCHANGED diag
         [] OTHER ->
              /\ tasks' = tasks \ {t}
              /\ senders' = senders - 1
              /\ UNCHANGED <<queue, sent, diag>>
    /\ UNCHANGED <<inputVars, vanished, pc, panicked, resolverVars>>

\* paths.into_par_iter().for_each_with(sender, ...) returns when every call it
\* spawned has returned; the directory's own sender is dropped with it
TraverseJoin(t) ==
    /\ pc = "walk"
    /\ t \in tasks
    /\ t.stage = "join"
    /\ ~\E c \in tasks : c.root = t.root /\ Parent(c.path) = t.path
    /\ tasks' = tasks \ {t}
    /\ senders' = senders - 1
    /\ UNCHANGED <<inputVars, vanished, pc, queue, sent, diag, panicked, resolverVars>>

\* the for_each_with of main returns and drops the original sender
MainJoin ==
    /\ pc = "walk"
    /\ tasks = {}
    /\ ~panicked
    /\ pc' = "drain"
    /\ senders' = senders - 1
    /\ UNCHANGED <<inputVars, vanished, tasks, queue, sent, diag, panicked, resolverVars>>

(***************************************************************************)
(* The bucketer, the resolvers and the partition                           *)
(***************************************************************************)
\* mutant: an occupied entry is replaced
bucket_insert_replacing(map, entry) ==
    LET k == get_length(entry)
    IN  IF k \in DOMAIN map
        THEN [map EXCEPT ![k] = <<entry>>]
        ELSE map @@ (k :> <<entry>>)

\* match files_of_lengths.entry(entry.get_length()) { Vacant / Occupied }
bucket_insert(map, entry) ==
    LET k == get_length(entry)
    IN  IF k \in DOMAIN map
        THEN [map EXCEPT ![k] = Append(@, entry)]
        ELSE map @@ (k :> <<entry>>)

\* one turn of: for entry in receiver.iter() { ... }
MainReceive ==
    /\ pc = "drain"
    /\ queue # <<>>
    /\ files_of_lengths' = bucket_insert(files_of_lengths, Head(queue))
    /\ queue' = Tail(queue)
    /\ UNCHANGED <<inputVars, vanished, pc, tasks, senders, sent, diag, panicked,
                   resolved, complete_files, partial_reads, full_reads,
                   shared_files, unique_files>>

\* receiver.iter() ends: the channel is empty and every sender is dropped
MainDrained ==
    /\ pc = "drain"
    /\ queue = <<>>
    /\ senders = 0
    /\ pc' = "resolve"
    /\ UNCHANGED <<inputVars, vanished, walkerVars, resolverVars>>

\* files_of_lengths.into_par_iter().map(differentiate_and_consolidate): the
\* task of one bucket; the collected order is the order the tasks end in
MainResolve(k) ==
    /\ pc = "resolve"
    /\ k \in DOMAIN files_of_lengths
    /\ k \notin resolved
    /\ LET files == files_of_lengths[k]
       IN  \E sorted \in sort_choices(k, files, content) :
              /\ complete_files' = complete_files \o
                     differentiate_and_consolidate(k, files, sorted, content)
              /\ partial_reads' = [p \in DOMAIN partial_reads |->
                     partial_reads[p] + partial_hashed(k, files, p)]
              /\ full_reads' = [p \in DOMAIN full_reads |->
                     full_reads[p] + full_hashed(k, files, sorted, p)]
    /\ resolved' = resolved \cup {k}
    /\ UNCHANGED <<inputVars, vanished, pc, walkerVars, files_of_lengths,
                   shared_files, unique_files>>

\* complete_files.par_iter().partition(|&x| x.file_paths.len()>1)
MainPartition ==
    /\ pc = "resolve"
    /\ resolved = DOMAIN files_of_lengths
    /\ shared_files' = SelectSeq(complete_files, is_shared)
    /\ unique_files' = SelectSeq(complete_files, LAMBDA x : ~is_shared(x))
    /\ pc' = "done"
    /\ UNCHANGED <<inputVars, vanished, walkerVars, files_of_lengths, resolved,
                   complete_files, partial_reads, full_reads>>

\* the entry is removed after current_path.exists() has answered true and
\* before symlink_metadata() or metadata() is asked: expect(...) panics
TraversePanic(t) ==
    /\ pc = "walk"
    /\ t \in tasks
    /\ t.stage = "call"
    /\ exists(t.path)
    /\ Cardinality(vanished) < MaxVanish
    /\ vanished' = vanished \cup {t.path}
    /\ panicked' = TRUE
    /\ tasks' = tasks \ {t}
    /\ senders' = senders - 1
    /\ UNCHANGED <<inputVars, pc, queue, sent, diag, resolverVars>>

\* the for_each_with of main resumes the panic of a task: main unwinds
MainAbort ==
    /\ pc = "walk"
    /\ tasks = {}
    /\ panicked
    /\ pc' = "aborted"
    /\ senders' = senders - 1
    /\ UNCHANGED <<inputVars, vanished, tasks, queue, sent, diag, panicked, resolverVars>>

WalkCall == \E t \in tasks : TraverseCall(t)
WalkJoin == \E t \in tasks : TraverseJoin(t)
WalkPanic == \E t \in tasks : TraversePanic(t)

Resolve == \E k \in DOMAIN files_of_lengths : MainResolve(k)

Next ==
    \/ MainSpawn
    \/ WalkCall
    \/ WalkJoin
    \/ MainJoin
    \/ MainReceive
    \/ MainDrained
    \/ Resolve
    \/ MainPartition

Spec == Init /\ [][Next]_vars

NextDrain ==
    \/ MainReceive
    \/ MainDrained
    \/ Resolve
    \/ MainPartition

SpecResolve == InitDrain /\ [][NextDrain]_vars

\* the thread pool runs every spawned task and the main thread goes on
FairSpec ==
    /\ Spec
    /\ WF_vars(WalkCall \/ WalkJoin)
    /\ WF_vars(MainSpawn \/ MainJoin \/ MainReceive \/ MainDrained)

NextRace ==
    \/ MainSpawn
    \/ WalkCall
    \/ WalkJoin
    \/ MainJoin
    \/ MainReceive
    \/ MainDrained
    \/ WalkPanic
    \/ MainAbort

\* the walk over a tree that changes while it is walked
SpecRace == Init /\ [][NextRace]_vars

(***************************************************************************)
(* Vocabulary of the properties                                            *)
(***************************************************************************)
Range(f) == {f[i] : i \in DOMAIN f}

\* how often path p occurs in the path lists of the records
Occurrences(files, p) ==
    Cardinality(UNION {{<<i, j>> : j \in {j \in DOMAIN files[i].file_paths :
                                            files[i].file_paths[j] = p}} :
                       i \in DOMAIN files})

CountIn(seq, x) == Cardinality({i \in DOMAIN seq : seq[i] = x})

\* the records of complete_files that came from the bucket of length k
ResultOf(k) == SelectSeq(complete_files, LAMBDA x : x.file_len = k)

\* the grouping of paths into records: the set of the records' path sets
Grouping(files) == {Range(files[i].file_paths) : i \in DOMAIN files}

RECURSIVE OrdersOf(_, _)
OrdersOf(files, S) ==
    IF S = {} THEN {<<>>}
    ELSE UNION {{<<files[i]>> \o rest : rest \in OrdersOf(files, S \ {i})} : i \in S}

\* the orders in which the records of a bucket can arrive
Reorderings(files) == OrdersOf(files, DOMAIN files)

\* no path was sent twice
DistinctPaths == \A i, j \in DOMAIN sent : sent[i].file_paths = sent[j].file_paths => i = j

\* the regular files the walk from path p reaches
RECURSIVE ReachableFrom(_)
ReachableFrom(p) ==
    IF ~exists(p) THEN {}
    ELSE IF file_type(p) = "file" THEN {p}
    ELSE IF file_type(p) = "dir" /\ p \notin unlistable
         THEN UNION {ReachableFrom(c) : c \in read_dir(p)}
         ELSE {}

Reachable == UNION {ReachableFrom(roots[i]) : i \in DOMAIN roots}

\* the last dedup_by merges a record that kept its partial hash with one
\* whose hash was replaced by a full hash (b is the last record kept)
RECURSIVE MixedMerge(_, _, _)
MixedMerge(files, i, b) ==
    IF i > Len(files) THEN FALSE
    ELSE IF Fileinfo_eq(files[i], b)
         THEN has_full_hash(files[i]) # has_full_hash(b) \/ MixedMerge(files, i + 1, b)
         ELSE MixedMerge(files, i + 1, files[i])

\* record i of the bucket shares its partial hash with another record of it
Collides(files, i) ==
    \E j \in DOMAIN files :
        /\ j # i
        /\ generate_hash(files[j], "Partial", content)
             = generate_hash(files[i], "Partial", content)

(***************************************************************************)
(* C1  Content-equality completeness: when the run is done, any two paths  *)
(* of files with identical content of nonzero length are in the same       *)
(* record of complete_files (stated for runs in which no path was sent     *)
(* twice).                                                                 *)
(***************************************************************************)
C1_NoFalseSplit ==
    (pc = "done" /\ DistinctPaths) =>
        \A i, j \in DOMAIN complete_files :
            \A p \in Range(complete_files[i].file_paths) :
                \A q \in Range(complete_files[j].file_paths) :
                    (content[p] = content[q] /\ content[p].len > 0) => i = j

(***************************************************************************)
(* C2  Content-equality soundness (the hash being injective): when the run *)
(* is done, the paths of one record all have identical content; a bucket   *)
(* of two files longer than 4096 bytes that differ only after byte 4096    *)
(* yields two one-path records; and the last dedup_by never merges a       *)
(* record that kept its partial hash with one that got a full hash.        *)
(***************************************************************************)
C2_NoFalseMerge ==
    pc = "done" =>
        /\ \A i \in DOMAIN complete_files :
              \A p, q \in Range(complete_files[i].file_paths) : content[p] = content[q]
        /\ \A k \in DOMAIN files_of_lengths :
              LET files == files_of_lengths[k]
              IN  /\ (/\ Len(files) = 2
                      /\ hash_again(k)
                      /\ content[files[1].file_paths[1]] # content[files[2].file_paths[1]])
                        => /\ Len(ResultOf(k)) = 2
                           /\ \A i \in 1..2 : Len(ResultOf(k)[i].file_paths) = 1
                  /\ \A sorted \in sort_choices(k, files, content) :
                        LET hashed == before_merge(k, sorted, content)
                        IN  Len(files) > 1 /\ k # 0 => ~MixedMerge(hashed, 2, hashed[1])

\* three files of 4097 bytes: two share their first 4096 bytes and differ
\* after them, the third has another prefix; three one-path records result
C2_Witness ==
    /\ pc = "done"
    /\ \E k \in DOMAIN files_of_lengths :
          /\ hash_again(k)
          /\ Len(files_of_lengths[k]) = 3
          /\ Len(ResultOf(k)) = 3
          /\ \E i, j, l \in 1..3 :
                LET c(n) == content[files_of_lengths[k][n].file_paths[1]]
                IN  /\ c(i).prefix = c(j).prefix
                    /\ c(i).suffix # c(j).suffix
                    /\ c(l).prefix # c(i).prefix

(***************************************************************************)
(* C3  Walker exactly-once: when the run is done, one Fileinfo was sent    *)
(* per reachable regular file, every reachable regular file's path occurs  *)
(* exactly once in the path lists of complete_files, and no other path     *)
(* occurs.                                                                 *)
(***************************************************************************)
C3_ExactlyOnce ==
    pc = "done" =>
        /\ Len(sent) = Cardinality(Reachable)
        /\ \A p \in TreeFiles \cup TreeDirs \cup TreeOthers \cup Range(roots) :
              Occurrences(complete_files, p) = IF p \in Reachable THEN 1 ELSE 0

(***************************************************************************)
(* C4  Order independence: when the run is done, every other order of      *)
(* arrival of a bucket's records and every order the unstable sort may     *)
(* leave them in gives the same grouping of paths into records as the one  *)
(* the run produced (stated for runs in which no path was sent twice).     *)
(***************************************************************************)
C4_OrderIndependent ==
    (pc = "done" /\ DistinctPaths) =>
        \A k \in DOMAIN files_of_lengths :
            \A files \in Reorderings(files_of_lengths[k]) :
                \A sorted \in sort_choices(k, files, content) :
                    Grouping(differentiate_and_consolidate(k, files, sorted, content))
                        = Grouping(ResultOf(k))

C6_Partition ==
    pc = "done" =>
        /\ \A i \in DOMAIN shared_files : Len(shared_files[i].file_paths) > 1
        /\ \A i \in DOMAIN unique_files : Len(unique_files[i].file_paths) = 1
        /\ Range(shared_files) \cap Range(unique_files) = {}
        /\ Range(shared_files) \cup Range(unique_files) = Range(complete_files)
        /\ \A x \in Range(complete_files) :
              CountIn(shared_files, x) + CountIn(unique_files, x) = CountIn(complete_files, x)

\* a run that ends with a shared and a unique record
C6_Witness ==
    /\ pc = "done"
    /\ shared_files # <<>>
    /\ unique_files # <<>>

(***************************************************************************)
(* C7  Zero-length exception: when the run is done, the bucket of length 0 *)
(* and every bucket of one record are in complete_files unchanged, no hash *)
(* of their files was computed, and each of their records is a unique      *)
(* record with one path.                                                   *)
(***************************************************************************)
C7_ZeroLengthUnchanged ==
    pc = "done" =>
        \A k \in DOMAIN files_of_lengths :
            LET files == files_of_lengths[k]
            IN  (k = 0 \/ Len(files) = 1) =>
                    /\ ResultOf(k) = files
                    /\ \A i \in DOMAIN files :
                          /\ partial_reads[files[i].file_paths[1]] = 0
                          /\ full_reads[files[i].file_paths[1]] = 0
                          /\ Len(files[i].file_paths) = 1
                          /\ CountIn(unique_files, files[i]) = CountIn(files, files[i])

\* two empty files and a third file alone in its bucket
C7_Witness ==
    /\ pc = "done"
    /\ 0 \in DOMAIN files_of_lengths
    /\ Len(files_of_lengths[0]) = 2
    /\ files_of_lengths[0][1].file_paths # files_of_lengths[0][2].file_paths
    /\ Len(unique_files) = 3

(***************************************************************************)
(* C8  Traversal errors are isolated: the run is never aborted; when the   *)
(* receiver loop has ended every regular file that is reachable and was    *)
(* not removed has been sent and is in a bucket; and an unlistable         *)
(* directory that was visited gave one "Skipping" line per visit.          *)
(***************************************************************************)
C8_ErrorsIsolated ==
    /\ pc # "aborted"
    /\ pc = "resolve" =>
          /\ \A p \in Reachable : \E i \in DOMAIN sent : sent[i].file_paths = <<p>>
          /\ \A d \in TreeDirs :
                diag[d] = IF d \in unlistable
                          THEN Cardinality({i \in DOMAIN roots :
                                   roots[i] = d \/ (exists(Parent(d)) /\ roots[i] = Parent(d))})
                          ELSE 0

(***************************************************************************)
(* C9  Queue drain and bucketing: the live senders are the live traversal  *)
(* tasks plus the one main holds during the walk, so that once the tasks   *)
(* have finished the receiver loop ends; when it has ended every record    *)
(* sent is in the bucket of its own length and in no other; no bucket is   *)
(* resolved before that, and none changes after.                           *)
(***************************************************************************)
C9_Bucketed ==
    pc \in {"resolve", "done"} =>
        /\ queue = <<>>
        /\ DOMAIN files_of_lengths = {get_length(sent[i]) : i \in DOMAIN sent}
        /\ \A k \in DOMAIN files_of_lengths :
              /\ \A i \in DOMAIN files_of_lengths[k] : get_length(files_of_lengths[k][i]) = k
              /\ \A x \in Range(sent) :
                    CountIn(files_of_lengths[k], x) = IF get_length(x) = k THEN CountIn(sent, x) ELSE 0

C9_SendersAreTasks ==
    senders = Cardinality(tasks) + (IF pc \in {"spawn", "walk"} THEN 1 ELSE 0)

C9_DrainAndBucketing ==
    /\ []C9_SendersAreTasks
    /\ []C9_Bucketed
    /\ []((resolved # {} \/ complete_files # <<>>) => pc \in {"resolve", "done"})
    /\ [][(pc \in {"resolve", "done"}) => (files_of_lengths' = files_of_lengths)]_vars
    /\ ((pc = "walk" /\ tasks = {}) ~> (pc = "resolve"))

\* the loop has ended with three records in two buckets
C9_Witness ==
    /\ pc = "resolve"
    /\ Len(sent) = 3
    /\ Cardinality(DOMAIN files_of_lengths) = 2
    /\ resolved = {}

(***************************************************************************)
(* C10  Path conservation: when the run is done, every path occurs in the  *)
(* records of complete_files as often as it was sent, every record has a   *)
(* path and the length of its files, and the marking pass of a bucket of   *)
(* length > 4096 removes no record and moves no path.                      *)
(***************************************************************************)
C10_PathsConserved ==
    pc = "done" =>
        /\ \A p \in DOMAIN content : Occurrences(complete_files, p) = Occurrences(sent, p)
        /\ \A i \in DOMAIN complete_files :
              /\ Len(complete_files[i].file_paths) >= 1
              /\ \A p \in Range(complete_files[i].file_paths) :
                    content[p].len = complete_files[i].file_len
        /\ \A k \in DOMAIN files_of_lengths :
              \A sorted \in sort_choices(k, files_of_lengths[k], content) :
                  hash_again(k) =>
                      /\ Len(mark_pass(sorted, 2)) = Len(sorted)
                      /\ \A i \in DOMAIN sorted :
                            mark_pass(sorted, 2)[i].file_paths = sorted[i].file_paths

\* a bucket of length > 4096 whose marking pass ran and that ended in a
\* record of two paths
C10_Witness ==
    /\ pc = "done"
    /\ \E i \in DOMAIN complete_files :
          /\ Len(complete_files[i].file_paths) = 2
          /\ hash_again(complete_files[i].file_len)
          /\ complete_files[i].second_hash

====
